---- MODULE Spec2Model ----
(***************************************************************************)
(* Strainer pressure-drop calculator (src/pressure_drop_app.py).           *)
(*                                                                         *)
(* The program computes with Python floats (IEEE binary64).  The model     *)
(* keeps the floating-point structure -- every operation rounds its exact  *)
(* result to the nearest representable value, ties to even -- with a       *)
(* significand of Precision bits instead of 53 and an unbounded exponent.  *)
(* A float is a record [m, e] of value m * 2^e, with m = 0 and e = 0 for   *)
(* zero and 2^(Precision-1) <= |m| < 2^Precision otherwise, so that equal  *)
(* values are equal records.                                               *)
(***************************************************************************)
EXTENDS Integers, Sequences, FiniteSets, TLC

\* Bits of the significand of a modelled float.
Precision == 12

Pow2(k) == 2 ^ k

Pow10(k) == 10 ^ k

Abs(n) == IF n < 0 THEN -n ELSE n

Sign(n) == IF n < 0 THEN -1 ELSE 1

RECURSIVE BitLen(_)
\* Number of bits of a > 0.
BitLen(a) == IF a = 0 THEN 0 ELSE 1 + BitLen(a \div 2)

FZero == [m |-> 0, e |-> 0]

\* n * 2^e (n any integer) rounded to Precision bits, ties to even.  sticky
\* says that the exact magnitude lies strictly between |n| and |n| + 1.
RoundFloat(n, e, sticky) ==
    LET a == Abs(n)
        L == BitLen(a)
    IN  IF a = 0 THEN FZero
        ELSE IF L <= Precision
        THEN [m |-> Sign(n) * a * Pow2(Precision - L), e |-> e - (Precision - L)]
        ELSE LET k    == L - Precision
                 q    == a \div Pow2(k)
                 r    == a % Pow2(k)
                 half == Pow2(k - 1)
                 up   == r > half \/ (r = half /\ (sticky \/ q % 2 = 1))
                 q1   == IF up THEN q + 1 ELSE q
             IN  IF q1 = Pow2(Precision)
                 THEN [m |-> Sign(n) * Pow2(Precision - 1), e |-> e + k + 1]
                 ELSE [m |-> Sign(n) * q1, e |-> e + k]

\* float(n) for an integer n.
F(n) == RoundFloat(n, 0, FALSE)

RECURSIVE ScaleUp(_, _, _)
\* The least j with n * 2^j >= d, for 0 < n; returns <<n * 2^j, j>>.
ScaleUp(n, d, j) == IF n >= d THEN <<n, j>> ELSE ScaleUp(2 * n, d, j + 1)

RECURSIVE DivBits(_, _, _, _)
\* k more bits of the binary expansion of (acc + rem/d): <<quotient, remainder>>.
DivBits(rem, d, k, acc) ==
    IF k = 0 THEN <<acc, rem>>
    ELSE DivBits((2 * rem) % d, d, k - 1, 2 * acc + ((2 * rem) \div d))

\* The float nearest to n/d * 2^e, for integers n and d > 0: one rounding of
\* the exact quotient (long division to Precision + 2 bits and a sticky bit).
Ratio(n, d, e) ==
    IF n = 0 THEN FZero
    ELSE LET s  == ScaleUp(Abs(n), d, 0)
             q0 == s[1] \div d
             k  == IF BitLen(q0) >= Precision + 2 THEN 0
                   ELSE Precision + 2 - BitLen(q0)
             b  == DivBits(s[1] % d, d, k, q0)
         IN  RoundFloat(Sign(n) * b[1], e - s[2] - k, b[2] # 0)

\* A decimal literal or typed-in number n/d (52.48 is Dec(5248, 100)).
Dec(n, d) == Ratio(n, d, 0)

FMul(x, y) == RoundFloat(x.m * y.m, x.e + y.e, FALSE)

\* x / y for y # 0.
FDiv(x, y) == Ratio(Sign(y.m) * x.m, Abs(y.m), x.e - y.e)

\* x + y.  An operand more than Precision + 4 binary places below the other
\* is less than a sixteenth of its last place and does not change the result.
FAdd(x, y) ==
    IF x.m = 0 THEN y
    ELSE IF y.m = 0 THEN x
    ELSE LET hi == IF x.e >= y.e THEN x ELSE y
             lo == IF x.e >= y.e THEN y ELSE x
             d  == hi.e - lo.e
         IN  IF d > Precision + 4 THEN hi
             ELSE RoundFloat(hi.m * Pow2(d) + lo.m, lo.e, FALSE)

RECURSIVE ISqrt(_, _, _)
\* floor(sqrt(n)) by bisection, lo^2 <= n < hi^2.
ISqrt(n, lo, hi) ==
    IF hi - lo <= 1 THEN lo
    ELSE LET mid == (lo + hi) \div 2
         IN  IF mid * mid <= n THEN ISqrt(n, mid, hi) ELSE ISqrt(n, lo, mid)

\* math.sqrt(x) for x >= 0, correctly rounded.
FSqrt(x) ==
    IF x.m = 0 THEN FZero
    ELSE LET s == IF (x.e - (Precision + 3)) % 2 = 0 THEN Precision + 3 ELSE Precision + 4
             n == x.m * Pow2(s)
             r == ISqrt(n, Pow2(Precision + 1), Pow2(Precision + 2))
         IN  RoundFloat(r, (x.e - s) \div 2, r * r # n)

\* x < y on floats (the program compares none; the claims do).
FLt(x, y) ==
    IF x.m <= 0 /\ y.m >= 0 THEN x.m < 0 \/ y.m > 0
    ELSE IF x.m >= 0 /\ y.m <= 0 THEN FALSE
    ELSE IF x.m > 0 THEN x.e < y.e \/ (x.e = y.e /\ x.m < y.m)
    ELSE x.e > y.e \/ (x.e = y.e /\ x.m < y.m)

FLe(x, y) == x = y \/ FLt(x, y)

\* What round(x, nd) returns: the float nearest to n / 10^nd, n the integer
\* nearest to x * 10^nd (ties to even).  It is kept as that decimal so that
\* two rounded results are equal exactly when they print alike, as they are
\* in binary64: [nd, n, big] is n / 10^nd when big is zero; a whole number of
\* magnitude at least 2^(Precision-1) is kept as the float big, with n = 0.
Rounded(nd, n) ==
    IF n % Pow10(nd) = 0 /\ Abs(n) \div Pow10(nd) >= Pow2(Precision - 1)
    THEN [nd |-> nd, n |-> 0, big |-> F(n \div Pow10(nd))]
    ELSE [nd |-> nd, n |-> n, big |-> FZero]

\* The builtin round(x, nd) on a float, 0 <= nd.
round(x, nd) ==
    IF x.e >= 0
    THEN [nd |-> nd, n |-> 0, big |-> x]
    ELSE LET k  == -x.e
             N  == Abs(x.m) * (5 ^ nd)
         IN  IF k < nd THEN Rounded(nd, Sign(x.m) * N * Pow2(nd - k))
             ELSE IF k - nd > 30 THEN Rounded(nd, 0)
             ELSE LET D  == Pow2(k - nd)
                      q  == N \div D
                      r  == N % D
                      up == 2 * r > D \/ (2 * r = D /\ q % 2 = 1)
                  IN  Rounded(nd, Sign(x.m) * (IF up THEN q + 1 ELSE q))

\* A rounded result used as a float again.
ToFloat(d) == IF d.big # FZero THEN d.big ELSE Ratio(d.n, Pow10(d.nd), 0)

\* A rounded result counted in units of 10^-nd.
Units(d) ==
    IF d.big = FZero THEN d.n ELSE d.big.m * Pow2(d.big.e) * Pow10(d.nd)

\* An optional argument: None, or a value.
None == <<>>

Some(v) == <<v>>

\* An exception raised out of a call, and a normal return.
Raise(name) == [raised |-> name]

Return(v) == [raised |-> "", value |-> v]

----------------------------------------------------------------------------
(* The program's constants and functions.                                  *)

GRAVITY == 980

K_DEFAULT == Dec(25, 10)

\* math.pi: 355/113 and pi round to the same float for Precision <= 20.
math_pi == Dec(355, 113)

F2 == F(2)

F100 == F(100)

F1000 == F(1000)

F3600 == F(3600)

F10000 == F(10000)

Mbar == Dec(980665, 1000000)

CylinderTypes == {"Y-type", "T-type", "Basket"}

\* calculate_screen_area with Basket missing from the list of cylinders.
calculate_screen_area_no_basket(strainer_type, od_mm, length_mm, height_mm) ==
    LET od     == FDiv(od_mm, F1000)
        length == FDiv(length_mm, F1000)
    IN  IF strainer_type \in {"Y-type", "T-type"}
        THEN FMul(FMul(math_pi, od), length)
        ELSE IF strainer_type = "Cone" /\ height_mm # None
        THEN LET r == FDiv(od, F2)
                 h == FDiv(height_mm[1], F1000)
             IN  FMul(FMul(math_pi, r), FSqrt(FAdd(FMul(r, r), FMul(h, h))))
        ELSE FZero

\* calculate_screen_area with the cone's base pi * r * r for its lateral
\* surface.
calculate_screen_area_cone_base(strainer_type, od_mm, length_mm, height_mm) ==
    LET od     == FDiv(od_mm, F1000)
        length == FDiv(length_mm, F1000)
    IN  IF strainer_type \in CylinderTypes
        THEN FMul(FMul(math_pi, od), length)
        ELSE IF strainer_type = "Cone" /\ height_mm # None
        THEN LET r == FDiv(od, F2)
             IN  FMul(FMul(math_pi, r), r)
        ELSE FZero

calculate_screen_area(strainer_type, od_mm, length_mm, height_mm) ==
    LET od     == FDiv(od_mm, F1000)
        length == FDiv(length_mm, F1000)
    IN  IF strainer_type \in CylinderTypes
        THEN FMul(FMul(math_pi, od), length)
        ELSE IF strainer_type = "Cone" /\ height_mm # None
        THEN LET r == FDiv(od, F2)
                 h == FDiv(height_mm[1], F1000)
             IN  FMul(FMul(math_pi, r), FSqrt(FAdd(FMul(r, r), FMul(h, h))))
        ELSE FZero

\* clogged_area with the area doubled instead of halved.
clogged_area_doubled(A_screen) == FMul(A_screen, F2)

\* The area the 50%-clogged velocity is taken over.
clogged_area(A_screen) == FDiv(A_screen, F2)

\* dP with the velocity head linear in V instead of quadratic.
dP_linear(K, rho, V) ==
    LET Vcm == FMul(V, F100)
    IN  FMul(FDiv(FMul(FMul(K, FDiv(rho, F1000)), Vcm), F(2 * GRAVITY)), Mbar)

\* K * (rho / 1000) * (V * 100) ** 2 / (2 * GRAVITY) * 0.980665
dP(K, rho, V) ==
    LET Vcm == FMul(V, F100)
    IN  FMul(FDiv(FMul(FMul(K, FDiv(rho, F1000)), FMul(Vcm, Vcm)), F(2 * GRAVITY)), Mbar)

\* A float division by zero raises ZeroDivisionError; A_screen / 2 is zero
\* only for A_screen zero (the exponent is unbounded).
pressure_drop(A_pipe, A_screen, flow_m3_hr, rho, K) ==
    LET flow_m3_s == FDiv(flow_m3_hr, F3600)
    IN  IF A_screen.m = 0 \/ clogged_area(A_screen).m = 0
        THEN Raise("ZeroDivisionError")
        ELSE LET V_clean   == FDiv(flow_m3_s, A_screen)
                 V_clogged == FDiv(flow_m3_s, clogged_area(A_screen))
             IN  Return([V_clean    |-> round(V_clean, 3),
                         V_clogged  |-> round(V_clogged, 3),
                         dP_clean   |-> round(dP(K, rho, V_clean), 2),
                         dP_clogged |-> round(dP(K, rho, V_clogged), 2)])

----------------------------------------------------------------------------
(* The Streamlit script: one run of it per widget change or button click.  *)

StrainerTypes == {"Y-type", "T-type", "Basket", "Cone"}

\* The height widget exists for a Cone only; it holds its default, 100.0.
height_of(strainer_type) == IF strainer_type = "Cone" THEN Some(F100) ELSE None

\* The widgets' values before the user touches them.
DefaultInputs ==
    [strainer_type |-> "Y-type", pipe_id |-> Dec(5248, 100), od |-> F(50),
     length |-> F(200), height |-> None, mesh_pct |-> F(40), perf_pct |-> F(60),
     flow |-> F(10), density |-> F1000, viscosity |-> F(1), K |-> K_DEFAULT]

\* The values the user sets a widget to (number_input has no lower limit;
\* the slider gives K in 0.5 .. 10.0).
WidgetValues ==
    [strainer_type |-> StrainerTypes,
     mesh_pct      |-> {F(0), Dec(1, 1000), F(40)},
     viscosity     |-> {F(1), F(5)},
     K             |-> {K_DEFAULT, F(10)}]

alpha_of(inp) == FDiv(FMul(inp.mesh_pct, inp.perf_pct), F10000)

A_pipe_of(inp) ==
    LET d == FDiv(inp.pipe_id, F1000)
    IN  FMul(FDiv(math_pi, F(4)), FMul(d, d))

A_screen_of(inp) ==
    FMul(calculate_screen_area(inp.strainer_type, inp.od, inp.length, inp.height),
         alpha_of(inp))

\* The row appended to cases (lines 112-123), from the iteration's values.
case_row(inp, A_pipe, A_screen, pd) ==
    [strainer_type |-> inp.strainer_type,
     pipe_id       |-> inp.pipe_id,
     screen_area   |-> round(A_screen, 6),
     ffr_clean     |-> round(FDiv(A_pipe, A_screen), 3),
     ffr_clogged   |-> round(FDiv(A_pipe, FDiv(A_screen, F2)), 3),
     V_clean       |-> pd.V_clean,
     V_clogged     |-> pd.V_clogged,
     dP_clean      |-> pd.dP_clean,
     dP_clogged    |-> pd.dP_clogged,
     flow          |-> inp.flow]

\* case_pressure_drop with a loss coefficient corrected by the viscosity.
case_pressure_drop_viscous(inp) ==
    pressure_drop(A_pipe_of(inp), A_screen_of(inp), inp.flow, inp.density,
                  FMul(inp.K, inp.viscosity))

\* The call of pressure_drop in the loop, on the widgets' values.
case_pressure_drop(inp) ==
    pressure_drop(A_pipe_of(inp), A_screen_of(inp), inp.flow, inp.density, inp.K)

\* The row of a call that returned, the exception of one that raised.
row_or_raise(inp, pd) ==
    IF pd.raised # "" THEN pd
    ELSE Return(case_row(inp, A_pipe_of(inp), A_screen_of(inp), pd.value))

\* One iteration of the case loop: the row appended to cases, or the
\* exception that leaves the loop and the script.
case_iteration(inp) == row_or_raise(inp, case_pressure_drop(inp))

SweepPoints == 40

\* np.linspace(1, 20, 40): start + k * step, the last point set to stop.
flow_range ==
    [k \in 1..SweepPoints |->
        IF k = SweepPoints THEN F(20)
        ELSE FAdd(FMul(F(k - 1), FDiv(F(20 - 1), F(SweepPoints - 1))), F(1))]

\* numpy's inf: a float64 divided by zero is inf (a warning, no exception),
\* and stays inf through the square and the positive factors.
Inf == [m |-> 0, e |-> 1]

\* One point of the plotted curve, for the area A of a row.
dp_value(f, A) ==
    IF A.m = 0 THEN Inf
    ELSE LET Vcm == FMul(FDiv(FDiv(f, F3600), A), F100)
         IN  FMul(FDiv(FMul(FMul(K_DEFAULT, FDiv(F1000, F1000)), FMul(Vcm, Vcm)),
                       F(2 * GRAVITY)), Mbar)

dp_values(case) ==
    [k \in 1..SweepPoints |-> dp_value(flow_range[k], ToFloat(case.screen_area))]

VARIABLES pc, inputs, clicked, cases, exc, chart, calls

vars == <<pc, inputs, clicked, cases, exc, chart, calls>>

\* The script starts with two cases, every widget at its default.
Init ==
    /\ pc = "loop"
    /\ inputs = <<DefaultInputs, DefaultInputs>>
    /\ clicked = FALSE
    /\ cases = <<>>
    /\ exc = ""
    /\ chart = <<>>
    /\ calls = <<>>

\* for i in range(num_cases): an exception ends the run, Streamlit shows it.
CaseIteration ==
    /\ pc = "loop"
    /\ Len(cases) < Len(inputs)
    /\ \E r \in {case_iteration(inputs[Len(cases) + 1])} :
          IF r.raised # ""
          THEN /\ exc' = r.raised
               /\ pc' = "stopped"
               /\ clicked' = FALSE
               /\ UNCHANGED cases
          ELSE /\ cases' = Append(cases, r.value)
               /\ pc' = IF Len(cases') = Len(inputs) THEN "button" ELSE "loop"
               /\ UNCHANGED <<exc, clicked>>
    /\ UNCHANGED <<inputs, chart, calls>>

\* if st.button("Generate Reports"): false in a run no click started.
ButtonNotClicked ==
    /\ pc = "button"
    /\ ~clicked
    /\ pc' = "idle"
    /\ UNCHANGED <<inputs, clicked, cases, exc, chart, calls>>

\* The body of the if: the table, the sweep and the plot of every case (the
\* Excel and PDF files are written from cases and change nothing here).
GenerateReports ==
    /\ pc = "button"
    /\ clicked
    /\ chart' = [i \in 1..Len(cases) |-> dp_values(cases[i])]
    /\ pc' = "idle"
    /\ clicked' = FALSE
    /\ UNCHANGED <<inputs, cases, exc, calls>>

\* A click on the button, shown once a run got that far, starts a run in
\* which st.button returns True.
ClickButton ==
    /\ pc = "idle"
    /\ pc' = "loop"
    /\ clicked' = TRUE
    /\ cases' = <<>>
    /\ chart' = <<>>
    /\ UNCHANGED <<inputs, exc, calls>>

\* The user sets one widget of one case; the script runs again.
ChangeWidget ==
    /\ pc \in {"idle", "stopped"}
    /\ \E i \in 1..Len(inputs), key \in DOMAIN WidgetValues :
         \E v \in WidgetValues[key] :
            /\ v # inputs[i][key]
            /\ inputs' = [inputs EXCEPT ![i] =
                    IF key = "strainer_type"
                    THEN [@ EXCEPT !.strainer_type = v, !.height = height_of(v)]
                    ELSE [@ EXCEPT ![key] = v]]
    /\ pc' = "loop"
    /\ clicked' = FALSE
    /\ cases' = <<>>
    /\ exc' = ""
    /\ chart' = <<>>
    /\ UNCHANGED calls

\* The user picks the number of cases, 1 or 2; a new case 2 has defaults.
ChangeNumCases ==
    /\ pc \in {"idle", "stopped"}
    /\ inputs' = IF Len(inputs) = 2 THEN <<inputs[1]>> ELSE <<inputs[1], DefaultInputs>>
    /\ pc' = "loop"
    /\ clicked' = FALSE
    /\ cases' = <<>>
    /\ exc' = ""
    /\ chart' = <<>>
    /\ UNCHANGED calls

Next ==
    \/ CaseIteration
    \/ ButtonNotClicked
    \/ GenerateReports
    \/ ClickButton
    \/ ChangeWidget
    \/ ChangeNumCases

Spec == Init /\ [][Next]_vars

----------------------------------------------------------------------------
(* calculate_screen_area as a function of its arguments: two calls, so     *)
(* that one result can be compared with another.                           *)

\* Dimensions 25, 50, ... mm, lengths 100, 200, ... mm, heights 50, 100, ...
MaxDim == 2

AreaTypes == StrainerTypes \cup {"Duplex"}

Heights == {None} \cup {Some(F(50 * k)) : k \in 1..MaxDim}

Range(seq) == {seq[k] : k \in DOMAIN seq}

Idle ==
    /\ pc = "call"
    /\ inputs = <<>>
    /\ clicked = FALSE
    /\ cases = <<>>
    /\ exc = ""
    /\ chart = <<>>

InitArea == Idle /\ calls = <<>>

CallScreenArea ==
    /\ Len(calls) < 2
    /\ \E t \in AreaTypes, d \in 1..MaxDim, l \in 1..MaxDim, h \in Heights :
          calls' = Append(calls,
              [strainer_type |-> t, od_mm |-> F(25 * d), length_mm |-> F(100 * l),
               height_mm |-> h,
               ret |-> calculate_screen_area(t, F(25 * d), F(100 * l), h)])
    /\ UNCHANGED <<pc, inputs, clicked, cases, exc, chart>>

NextArea == CallScreenArea

SpecArea == InitArea /\ [][NextArea]_vars

----------------------------------------------------------------------------
(* pressure_drop as a function of its arguments.                           *)

\* Areas -0.001, -0.0005, 0, 0.0005, ... m2 and flows -5, 0, 5, ... m3/hr.
MaxAreaSteps == 6

MaxFlowSteps == 4

AreaInputs == {Dec(a, 2000) : a \in -2..MaxAreaSteps}

FlowInputs == {F(5 * f) : f \in -1..MaxFlowSteps}

DensityInputs == {F(0), F(800), F1000}

KInputs == {F(-1), F(0), Dec(5, 10), K_DEFAULT, F(10)}

InitPD == Idle /\ calls = <<>>

CallPressureDrop ==
    /\ calls = <<>>
    /\ \E A \in AreaInputs, flow \in FlowInputs, rho \in DensityInputs, K \in KInputs :
          calls' = <<[A_screen |-> A, flow_m3_hr |-> flow, rho |-> rho, K |-> K,
                      ret |-> pressure_drop(A_pipe_of(DefaultInputs), A, flow, rho, K)]>>
    /\ UNCHANGED <<pc, inputs, clicked, cases, exc, chart>>

NextPD == CallPressureDrop

SpecPD == InitPD /\ [][NextPD]_vars

\* The calls that returned a result for a positive screen area.
ValidReturns == {c \in Range(calls) : FLt(FZero, c.A_screen) /\ c.ret.raised = ""}

----------------------------------------------------------------------------
(* The claims.                                                             *)

\* C1: every call of pressure_drop with A_screen <= 0 ends in an error and
\* returns no velocity or pressure drop.
C1_DegenerateAreaIsError ==
    \A c \in Range(calls) : FLe(c.A_screen, FZero) => c.ret.raised # ""

\* C2: in a run of two cases a case whose computation fails does not keep
\* the other from being computed: when the run has ended, the row of every
\* case that computes without error is in cases.
C2_SiblingCaseComputed ==
    (pc \in {"stopped", "idle"} /\ Len(inputs) = 2) =>
        \A j \in 1..2 :
            case_iteration(inputs[j]).raised = "" =>
                \E k \in DOMAIN cases : cases[k] = case_iteration(inputs[j]).value

\* C3: the first point of each case's sweep is, rounded to 2 decimals, the
\* dP_clean of pressure_drop called with the case's effective screen area,
\* density and K at the flow range's minimum.
C3_SweepFirstPointIsDirectCall ==
    chart # <<>> =>
        \A i \in DOMAIN chart :
            /\ chart[i][1] # Inf
            /\ round(chart[i][1], 2) =
                  pressure_drop(A_pipe_of(inputs[i]), A_screen_of(inputs[i]),
                                flow_range[1], inputs[i].density,
                                inputs[i].K).value.dP_clean

\* C4 as claimed: every call that returns for A_screen > 0 has
\* dP_clogged > dP_clean.
C4_CloggedStrictlyGreater ==
    \A c \in ValidReturns :
        Units(c.ret.value.dP_clogged) > Units(c.ret.value.dP_clean)

\* C4 as amended: for A_screen > 0, dP_clogged > dP_clean whenever the
\* returned dP_clean is positive, and dP_clogged >= dP_clean whenever K and
\* the density do not differ in sign.
C4_CloggedGreaterWhenPositive ==
    \A c \in ValidReturns :
        /\ Units(c.ret.value.dP_clean) > 0 =>
              Units(c.ret.value.dP_clogged) > Units(c.ret.value.dP_clean)
        /\ c.K.m * c.rho.m >= 0 =>
              Units(c.ret.value.dP_clogged) >= Units(c.ret.value.dP_clean)

C4_Witness ==
    \E c \in ValidReturns :
        /\ Units(c.ret.value.dP_clean) > 0
        /\ Units(c.ret.value.dP_clogged) > Units(c.ret.value.dP_clean)

\* C5 as claimed: the returned V_clogged is exactly twice the returned
\* V_clean.
C5_VcloggedExactlyDouble ==
    \A c \in ValidReturns :
        Units(c.ret.value.V_clogged) = 2 * Units(c.ret.value.V_clean)

\* C5 as amended: the returned V_clogged and twice the returned V_clean
\* differ by at most 0.001, one unit of the 3-decimal rounding.
C5_VcloggedDoubleWithinRounding ==
    \A c \in ValidReturns :
        Abs(Units(c.ret.value.V_clogged) - 2 * Units(c.ret.value.V_clean)) <= 1

C5_Witness ==
    \E c \in ValidReturns :
        Abs(Units(c.ret.value.V_clogged) - 2 * Units(c.ret.value.V_clean)) = 1

\* C6 as claimed: the returned dP_clogged is 4 times the returned dP_clean.
C6_dPcloggedExactlyFourfold ==
    \A c \in ValidReturns :
        Units(c.ret.value.dP_clogged) = 4 * Units(c.ret.value.dP_clean)

\* C6 as amended: the returned dP_clogged and 4 times the returned dP_clean
\* differ by at most 0.02, two units of the 2-decimal rounding.
C6_dPcloggedFourfoldWithinRounding ==
    \A c \in ValidReturns :
        Abs(Units(c.ret.value.dP_clogged) - 4 * Units(c.ret.value.dP_clean)) <= 2

C6_Witness ==
    \E c \in ValidReturns :
        Abs(Units(c.ret.value.dP_clogged) - 4 * Units(c.ret.value.dP_clean)) \in {1, 2}

\* pi x outer diameter x length, in metres.
CylinderSurface(od_mm, length_mm) ==
    FMul(FMul(math_pi, FDiv(od_mm, F1000)), FDiv(length_mm, F1000))

\* pi x r x sqrt(r^2 + h^2), r = outer diameter / 2, in metres.
ConeSurface(od_mm, height_mm) ==
    FMul(FMul(math_pi, FDiv(FDiv(od_mm, F1000), F2)),
         FSqrt(FAdd(FMul(FDiv(FDiv(od_mm, F1000), F2), FDiv(FDiv(od_mm, F1000), F2)),
                    FMul(FDiv(height_mm, F1000), FDiv(height_mm, F1000)))))

\* C7: the geometry tag selects the formula: the cylinder's surface for
\* Y-type, T-type and Basket whatever the height, the cone's for a Cone with
\* a height whatever the length, and 0 for every other tag and for a Cone
\* without a height.
C7_FormulaByGeometryTag ==
    \A c \in Range(calls) :
        IF c.strainer_type \in {"Y-type", "T-type", "Basket"}
        THEN c.ret = CylinderSurface(c.od_mm, c.length_mm)
        ELSE IF c.strainer_type = "Cone" /\ c.height_mm # None
        THEN c.ret = ConeSurface(c.od_mm, c.height_mm[1])
        ELSE c.ret = FZero

\* A Basket with a height and a Cone without one have both been computed,
\* the one to its cylinder surface, the other to 0.
C7_Witness ==
    /\ Len(calls) = 2
    /\ calls[1].strainer_type = "Basket" /\ calls[1].height_mm # None
    /\ calls[1].ret = CylinderSurface(calls[1].od_mm, calls[1].length_mm)
    /\ calls[1].ret # FZero
    /\ calls[2].strainer_type = "Cone" /\ calls[2].height_mm = None
    /\ calls[2].ret = FZero

\* The dimension that counts beside the outer diameter: the length of a
\* cylinder, the height of a cone.
Recognized(c) ==
    c.strainer_type \in CylinderTypes \/ (c.strainer_type = "Cone" /\ c.height_mm # None)

OtherDim(c) == IF c.strainer_type = "Cone" THEN c.height_mm[1] ELSE c.length_mm

SameButViscosity(i, j) ==
    inputs[i] = [inputs[j] EXCEPT !.viscosity = inputs[i].viscosity]

\* C9: two computed cases that differ in the viscosity alone have the same
\* row (screen area, free-flow ratios, velocities, pressure drops) and the
\* same sweep.
C9_ViscosityHasNoEffect ==
    \A i \in DOMAIN cases, j \in DOMAIN cases :
        SameButViscosity(i, j) =>
            /\ cases[i] = cases[j]
            /\ chart # <<>> => chart[i] = chart[j]

C9_Witness ==
    /\ Len(cases) = 2
    /\ chart # <<>>
    /\ SameButViscosity(1, 2)
    /\ inputs[1].viscosity # inputs[2].viscosity

\* C10: when Generate Reports has run, the area each case's sweep divides
\* by (the row's screen area, rounded to 6 decimals) is strictly positive
\* and no point of the sweep is infinite.
C10_SweepAreaPositive ==
    chart # <<>> =>
        \A i \in DOMAIN chart :
            /\ FLt(FZero, ToFloat(cases[i].screen_area))
            /\ \A k \in DOMAIN chart[i] : chart[i][k] # Inf
====
